---- MODULE Spec2Model ----
(***************************************************************************)
(* A model of the jsc_hashtable library: hashtable.h, hash_seed.c and      *)
(* hashtable.c (the last two are src/unnamed/part_000).                    *)
(*                                                                         *)
(* Keys are byte strings (sequences of non-zero bytes), values are opaque  *)
(* non-NULL pointers, NULL is 0.  An item pointer is modelled by the key of *)
(* the item it points to (a chain never holds two items with the same      *)
(* bytes), a pointer to a released item is marked "freed".                  *)
(***************************************************************************)
EXTENDS Integers, Sequences, FiniteSets, TLC

\* ------------------------------------------------------------------ bounds
NumKeys == 2          \* how many of the keys of KeyList the callers use
MaxInitSize == 2      \* largest initial_size passed to hashtable_create
MaxLoad == 2          \* largest max_load_factor passed to hashtable_create
MaxTableSize == 4     \* growth beyond this table_size is not explored
MaxBucketSize == 2    \* bucket->size beyond this is not explored
MaxAllocFail == 6     \* ordinal of the last allocation of a call that may fail

\* ------------------------------------------------- constants of the program
HASHTABLE_GROWTH_FACTOR == 2
NULL == 0

KeyList == << <<1>>, <<1, 2>>, <<2>>, <<2, 1>>, <<2, 2>> >>
Keys == {KeyList[i] : i \in 1..NumKeys}
\* The code never looks into a value: two distinct pointers tell every
\* overwrite, mix-up and loss apart.
Vals == {1, 2}
\* The seeds pid_seed_generate produces (any 32-bit number, 0 not excluded).
PidSeeds == {0, 1}
Min(a, b) == IF a < b THEN a ELSE b

\* ------------------------------------------------------------ pure helpers

\* The NUL-terminated copy of a key that _internal_strdup builds.
_internal_strdup(src) == src \o <<0>>

\* strncmp(s1, s2, n) on NUL-terminated byte strings: 0 when the first n
\* bytes agree or both strings end together before that, else the difference.
RECURSIVE StrncmpFrom(_, _, _, _)
StrncmpFrom(s1, s2, n, i) ==
    IF i > n THEN 0
    ELSE IF s1[i] # s2[i] THEN s1[i] - s2[i]
    ELSE IF s1[i] = 0 THEN 0
    ELSE StrncmpFrom(s1, s2, n, i + 1)

strncmp(s1, s2, n) == StrncmpFrom(s1, s2, n, 1)

\* The comparison every scan of the library uses: the stored, terminated key
\* copy against the caller's key bytes, over keylen bytes only.  (The
\* caller's buffer is never read past keylen, the padding is not observed.)
KeyMatch(stored, key) == strncmp(_internal_strdup(stored), key \o <<0>>, Len(key)) = 0

\* hashlittle(key, length, seed): the seeded 32-bit hash (lookup3), a black
\* box to the table.  Modelled by a small seeded mixing function whose
\* values stay within HashRange.
HashRange == 32768
RECURSIVE HashMix(_, _, _)
HashMix(key, i, acc) ==
    IF i > Len(key) THEN acc
    ELSE HashMix(key, i + 1, (acc * acc + (acc \div 2) + 6 * key[i] + i) % HashRange)

hashlittle(key, sd) == HashMix(key, 1, (sd + Len(key)) % HashRange)

\* ------------------------------------------------------------------- state
VARIABLES
    hashtable_seed,   \* the process-wide seed (hash_seed.c)
    table,            \* the table the caller's handle points to, or NoTable
    status,           \* "ok", "hung" (a call never returns) or "undefined"
    last              \* the last call: its arguments and what it did

vars == <<hashtable_seed, table, status, last>>

\* hash_item_t: next is the position in the chain, keylen is Len(key).
Item(key, value) == [key |-> key, value |-> value]

\* An item pointer: NULL, a linked item (named by its key) or a released one.
PtrNull == [st |-> "null", key |-> <<>>]
PtrItem(key) == [st |-> "item", key |-> key]
PtrFreed == [st |-> "freed", key |-> <<>>]

\* bucket_t; a slot holding the NULL bucket pointer is NoBucket.
NoBucket == [allocated |-> FALSE, chain |-> <<>>, tail |-> PtrNull, size |-> 0, had_collision |-> FALSE]

\* hashtable_t; id is the address of the table object (the caller's handle),
\* a NULL handle is NoTable.  buckets[i + 1] is slot i.
NoTable == [allocated |-> FALSE, id |-> 0, table_size |-> 0, num_items |-> 0, max_load_factor |-> 0, buckets |-> <<>>]

\* What a call leaves in `last` when it has nothing to say about a field.
NoCall == [op |-> "none", key |-> <<>>, value |-> NULL, replace |-> FALSE, dealloc |-> FALSE,
           ret |-> 0, freed |-> <<>>, hit |-> <<>>, created |-> FALSE, grow |-> "none"]

\* ---------------------------------------------------------------- buckets
_bucket_init == [allocated |-> TRUE, chain |-> <<>>, tail |-> PtrNull, size |-> 0, had_collision |-> FALSE]

\* Position in the chain of the item a pointer refers to, 0 if none.
PosOf(chain, ptr) ==
    IF ptr.st = "item" /\ \E i \in 1..Len(chain) : chain[i].key = ptr.key
    THEN CHOOSE i \in 1..Len(chain) : chain[i].key = ptr.key
    ELSE 0

\* _bucket_insert: link the item behind tail, make it the tail, make it the
\* head of an empty chain, count it, record a collision.  ub: the store to
\* tail->next went through a pointer to a released item.
_bucket_insert(bucket, item) ==
    LET p == PosOf(bucket.chain, bucket.tail)
        linked == IF p # 0 THEN SubSeq(bucket.chain, 1, p) \o <<item>> ELSE bucket.chain
        chain == IF linked = <<>> THEN <<item>> ELSE linked
        size == bucket.size + 1
    IN [bucket |-> [allocated |-> TRUE, chain |-> chain, tail |-> PtrItem(item.key), size |-> size,
                    had_collision |-> bucket.had_collision \/ size > 1],
        ub |-> bucket.tail.st = "freed"]

\* _key_in_bucket: position of the first item of the chain whose key compares
\* equal under strncmp over the caller's keylen, 0 when there is none.
_key_in_bucket(bucket, key) ==
    IF \E i \in 1..Len(bucket.chain) : KeyMatch(bucket.chain[i].key, key)
    THEN CHOOSE i \in 1..Len(bucket.chain) :
            /\ KeyMatch(bucket.chain[i].key, key)
            /\ \A j \in 1..(i - 1) : ~KeyMatch(bucket.chain[j].key, key)
    ELSE 0

\* _hash_item_create: two allocations, the item and the key copy.  n counts
\* the allocations the call has made so far, F holds the ordinals that fail.
_hash_item_create(n, F) ==
    IF (n + 1) \in F THEN [ok |-> FALSE, n |-> n + 1]
    ELSE IF (n + 2) \in F THEN [ok |-> FALSE, n |-> n + 2]
    ELSE [ok |-> TRUE, n |-> n + 2]

\* hashtable_create: the table object and the zeroed slot array.  A zero
\* size array may or may not be allocated (zeroOk), id is the new address.
hashtable_create(initial_size, max_loadfactor, id, zeroOk, n, F) ==
    IF (n + 1) \in F THEN [ok |-> FALSE, table |-> NoTable, n |-> n + 1]
    ELSE IF (n + 2) \in F \/ (initial_size = 0 /\ ~zeroOk) THEN [ok |-> FALSE, table |-> NoTable, n |-> n + 2]
    ELSE [ok |-> TRUE, n |-> n + 2,
          table |-> [allocated |-> TRUE, id |-> id, table_size |-> initial_size, num_items |-> 0,
                     max_load_factor |-> max_loadfactor, buckets |-> [i \in 1..initial_size |-> NoBucket]]]

\* ----------------------------------------------------------------- insert
\* (Intermediate results are handed on as operator arguments, which are
\* evaluated once.)
Slot(t, key) == hashlittle(key, hashtable_seed) % t.table_size

InsertResult(ret, t, freed, n, hit, ub, created) ==
    [ret |-> ret, table |-> t, freed |-> freed, n |-> n, hit |-> hit, ub |-> ub, created |-> created]

\* (C7 mutant) The duplicate branch without the test of override: the value
\* is overwritten whether or not the caller asked for a replacement.
InsertExistingAlways(t, index, pos, found, value, override, dealloc, n) ==
    InsertResult(IF override THEN 1 ELSE -1, [t EXCEPT !.buckets[index + 1].chain[pos].value = value],
                 IF dealloc THEN <<found.value>> ELSE <<>>, n, found.key, FALSE, FALSE)

\* The branch of _hashtable_insert for a key that _key_in_bucket reports in
\* the item `found` at position pos: refuse without override, else hand the
\* old value to the deallocator (if any) and overwrite it.
InsertExisting(t, index, pos, found, value, override, dealloc, n) ==
    IF ~override THEN InsertResult(-1, t, <<>>, n, found.key, FALSE, FALSE)
    ELSE InsertResult(1, [t EXCEPT !.buckets[index + 1].chain[pos].value = value],
                      IF dealloc THEN <<found.value>> ELSE <<>>, n, found.key, FALSE, FALSE)

\* The branches of _hashtable_insert that create an item (allocation result
\* c) and append it to the bucket of slot index (b is _bucket_insert's result).
InsertNew(t, index, c, b) ==
    IF ~c.ok THEN InsertResult(-1, t, <<>>, c.n, <<>>, FALSE, FALSE)
    ELSE InsertResult(0, [t EXCEPT !.buckets[index + 1] = b.bucket], <<>>, c.n, <<>>, b.ub, TRUE)

InsertAt(t, index, bucket, pos, key, value, override, dealloc, n, F) ==
    IF bucket.allocated
    THEN IF pos # 0 THEN InsertExisting(t, index, pos, bucket.chain[pos], value, override, dealloc, n)
         ELSE InsertNew(t, index, _hash_item_create(n, F), _bucket_insert(bucket, Item(key, value)))
    ELSE IF (n + 1) \in F THEN InsertResult(-1, t, <<>>, n + 1, <<>>, FALSE, FALSE)
         ELSE InsertNew(t, index, _hash_item_create(n + 1, F), _bucket_insert(_bucket_init, Item(key, value)))

InsertInto(t, index, bucket, key, value, override, dealloc, n, F) ==
    InsertAt(t, index, bucket, IF bucket.allocated THEN _key_in_bucket(bucket, key) ELSE 0,
             key, value, override, dealloc, n, F)

\* _hashtable_insert: 0 a new item was linked, 1 a value was overwritten,
\* -1 the key exists or an allocation failed.
_hashtable_insert(t, key, value, override, dealloc, n, F) ==
    InsertInto(t, Slot(t, key), t.buckets[Slot(t, key) + 1], key, value, override, dealloc, n, F)

\* ------------------------------------------------------------------- grow
\* The items of a table in the order _hashtable_grow and hashtable_destroy
\* visit them: slot by slot, each chain from its head.
RECURSIVE ItemsFrom(_, _)
ItemsFrom(t, i) ==
    IF i > t.table_size THEN <<>>
    ELSE (IF t.buckets[i].allocated THEN t.buckets[i].chain ELSE <<>>) \o ItemsFrom(t, i + 1)

ItemsOf(t) == ItemsFrom(t, 1)

\* The migration loop of _hashtable_grow: every old item is inserted into the
\* new table (the result of the insert is not looked at) and then released.
RECURSIVE Migrate(_, _, _, _, _)
MigrateNext(items, i, r, F) == Migrate(items, i + 1, r.table, r.n, F)

Migrate(items, i, new_table, n, F) ==
    IF i > Len(items) THEN [table |-> new_table, n |-> n]
    ELSE MigrateNext(items, i, _hashtable_insert(new_table, items[i].key, items[i].value, FALSE, FALSE, n, F), F)

GrowMigrated(m) == [ok |-> TRUE, table |-> m.table, n |-> m.n]

GrowInto(t, c, F) ==
    IF ~c.ok THEN [ok |-> FALSE, table |-> t, n |-> c.n]
    ELSE GrowMigrated(Migrate(ItemsOf(t), 1, c.table, c.n, F))

\* _hashtable_grow: NULL (ok = FALSE) when the new table cannot be created,
\* with the old table untouched; else the new table, the old one released.
_hashtable_grow(t, n, F) ==
    GrowInto(t, hashtable_create(t.table_size * HASHTABLE_GROWTH_FACTOR, t.max_load_factor, 3 - t.id, TRUE, n, F), F)

\* -------------------------------------------------------------------- set
\* n: the allocations the call made.
SetResult(ret, t, freed, hit, ub, created, grow, n) ==
    [ret |-> ret, table |-> t, freed |-> freed, hit |-> hit, ub |-> ub, created |-> created, grow |-> grow, n |-> n]

\* (C9 mutant) The handle is assigned before the result of the growth is
\* tested: a failed growth leaves the caller with NULL.
SetGrownAssignsFirst(r, counted, g) ==
    IF ~g.ok THEN SetResult(-1, NoTable, r.freed, r.hit, r.ub, TRUE, "nomem", g.n)
    ELSE SetResult(0, g.table, r.freed, r.hit, r.ub, TRUE, "grown", g.n)

\* The end of hashtable_set when the load factor is reached: g is the result
\* of _hashtable_grow on the table with the new item counted.
SetGrown(r, counted, g) ==
    IF ~g.ok THEN SetResult(-1, counted, r.freed, r.hit, r.ub, TRUE, "nomem", g.n)
    ELSE SetResult(0, g.table, r.freed, r.hit, r.ub, TRUE, "grown", g.n)

\* Whether hashtable_set grows the table t, the new item counted.
LoadReached(t) == t.num_items \div t.table_size >= t.max_load_factor

SetCounted(r, counted, F) ==
    IF LoadReached(counted) THEN SetGrown(r, counted, _hashtable_grow(counted, r.n, F))
    ELSE SetResult(-1, counted, r.freed, r.hit, r.ub, TRUE, "none", r.n)

\* hashtable_set after _hashtable_insert returned 0: count the item, grow
\* when the load factor is reached.
SetInserted(r, F) == SetCounted(r, [r.table EXCEPT !.num_items = @ + 1], F)

\* (C18 mutant) An overwrite (_hashtable_insert returned 1) is counted and
\* tested against the load factor like a new item.
SetAfterInsertCountsOverwrite(r, F) ==
    IF r.ret \in {0, 1} THEN SetInserted(r, F)
    ELSE SetResult(-1, r.table, r.freed, r.hit, r.ub, FALSE, "none", r.n)

SetAfterInsert(r, F) ==
    IF r.ret = 0 THEN SetInserted(r, F)
    ELSE SetResult(-1, r.table, r.freed, r.hit, r.ub, FALSE, "none", r.n)

\* hashtable_set on a table with at least one slot.
hashtable_set(t, key, value, replace, dealloc, F) ==
    SetAfterInsert(_hashtable_insert(t, key, value, replace, dealloc, 0, F), F)

\* ---------------------------------------------------------- find, get, exists
FindNull == [st |-> "null", key |-> <<>>, value |-> NULL]
FindUB == [st |-> "ub", key |-> <<>>, value |-> NULL]
FindItem(item) == [st |-> "item", key |-> item.key, value |-> item.value]

\* The loop of _hashtable_find: from the item at position i, step to the next
\* item until the cursor is the tail; stepping off the chain dereferences NULL.
RECURSIVE FindScan(_, _, _)
FindScan(bucket, key, i) ==
    IF PosOf(bucket.chain, bucket.tail) = i THEN FindNull
    ELSE IF i + 1 > Len(bucket.chain) THEN FindUB
    ELSE IF KeyMatch(bucket.chain[i + 1].key, key) THEN FindItem(bucket.chain[i + 1])
    ELSE FindScan(bucket, key, i + 1)

\* The fast path of _hashtable_find: a bucket that never had a collision and
\* has size 1 answers with its head, whatever the key.
FindFastPath(bucket) == ~bucket.had_collision /\ bucket.size = 1

\* _hashtable_find: the item found, NULL, or "ub" when the search divides by
\* a zero table_size or reads through a NULL head.
FindInBucket(bucket, key) ==
    IF ~bucket.allocated THEN FindNull
    ELSE IF FindFastPath(bucket)
         THEN (IF bucket.chain = <<>> THEN FindNull ELSE FindItem(bucket.chain[1]))
    ELSE IF bucket.chain = <<>> THEN FindUB
    ELSE IF KeyMatch(bucket.chain[1].key, key) THEN FindItem(bucket.chain[1])
    ELSE FindScan(bucket, key, 1)

_hashtable_find(t, key) ==
    IF ~t.allocated THEN FindNull
    ELSE IF t.table_size = 0 THEN FindUB
    ELSE FindInBucket(t.buckets[Slot(t, key) + 1], key)

\* hashtable_get: the value of the item found, NULL if none.  UB (not a
\* value, not a return code) stands for a call whose behaviour is undefined.
UB == -3
GetOf(pair) == IF pair.st = "ub" THEN UB ELSE IF pair.st = "null" THEN NULL ELSE pair.value

hashtable_get(t, key) == GetOf(_hashtable_find(t, key))

ExistsOf(pair) == IF pair.st = "ub" THEN UB ELSE IF pair.st = "null" THEN 0 ELSE 1

hashtable_exists_pair(t, key) == ExistsOf(_hashtable_find(t, key))

\* ----------------------------------------------------------------- remove
HANG == -2
RemoveResult(ret, t, freed, hit) == [ret |-> ret, table |-> t, freed |-> freed, hit |-> hit]

\* The cursor of the removal loop after an iteration that did not match: the
\* loop body has no statement that moves temp_item.
RemoveAdvance(i) == i

\* Unlinking the item at position i of slot index: as the head, the head
\* moves to its successor; deeper in the chain the store goes through
\* prev_item, which is still NULL.  The tail pointer is not looked at and is
\* left pointing at the released item when that was the tail.
RemoveUnlink(t, index, i, dealloc) ==
    LET bucket == t.buckets[index + 1]
        item == bucket.chain[i]
    IN IF i # 1 THEN RemoveResult(UB, t, <<>>, <<>>)
       ELSE RemoveResult(0, [t EXCEPT !.buckets[index + 1].chain = Tail(bucket.chain),
                                      !.buckets[index + 1].tail =
                                          IF @ = PtrItem(item.key) THEN PtrFreed ELSE @,
                                      !.num_items = @ - 1],
                         IF dealloc THEN <<item.value>> ELSE <<>>, item.key)

\* The loop of _hashtable_remove with temp_item at position i.  An iteration
\* that leaves the cursor where it was repeats for ever: HANG.
RECURSIVE RemoveScan(_, _, _, _, _)
RemoveScan(t, index, key, i, dealloc) ==
    LET chain == t.buckets[index + 1].chain
    IN IF i > Len(chain) THEN RemoveResult(-1, t, <<>>, <<>>)
       ELSE IF KeyMatch(chain[i].key, key) THEN RemoveUnlink(t, index, i, dealloc)
       ELSE IF RemoveAdvance(i) = i THEN RemoveResult(HANG, t, <<>>, <<>>)
       ELSE RemoveScan(t, index, key, RemoveAdvance(i), dealloc)

\* _hashtable_remove: 0 removed, -1 not removed.
_hashtable_remove(t, key, dealloc) ==
    IF ~t.allocated \/ t.num_items = 0 THEN RemoveResult(-1, t, <<>>, <<>>)
    ELSE LET index == Slot(t, key)
         IN IF ~t.buckets[index + 1].allocated THEN RemoveResult(-1, t, <<>>, <<>>)
            ELSE IF t.buckets[index + 1].chain = <<>> THEN RemoveResult(-1, t, <<>>, <<>>)
            ELSE RemoveScan(t, index, key, 1, dealloc)

\* ---------------------------------------------------------------- destroy
RECURSIVE ValuesOf(_, _)
ValuesOf(items, i) == IF i > Len(items) THEN <<>> ELSE <<items[i].value>> \o ValuesOf(items, i + 1)

\* hashtable_destroy: the values handed to the deallocator.  The slots are
\* walked only when num_items is not zero.
DestroyFreed(t, dealloc) ==
    IF t.num_items # 0 /\ dealloc THEN ValuesOf(ItemsOf(t), 1) ELSE <<>>

\* ------------------------------------------------------------ specification
\* Of the allocations of one call, none fails or exactly one of the first
\* MaxAllocFail does.  (The failure of an allocation the call never reaches
\* is the same call as no failure: Set enumerates the ones it reaches.)

Call(op, key, value, replace, dealloc, ret, freed, hit, created, grow) ==
    [op |-> op, key |-> key, value |-> value, replace |-> replace, dealloc |-> dealloc,
     ret |-> ret, freed |-> freed, hit |-> hit, created |-> created, grow |-> grow]

\* A call whose behaviour is undefined: nothing is said about the process
\* from there on.
Undefined(op, key, value, replace, dealloc) ==
    /\ status' = "undefined"
    /\ last' = Call(op, key, value, replace, dealloc, UB, <<>>, <<>>, FALSE, "none")
    /\ UNCHANGED <<hashtable_seed, table>>

\* The caller is between two calls: the previous one has returned and its
\* result has been taken.
Idle == status = "ok" /\ last.op = "none"

Init ==
    /\ hashtable_seed = 0
    /\ table = NoTable
    /\ status = "ok"
    /\ last = NoCall

\* set_hashtable_seed(new_seed); gen is what pid_seed_generate produces.  The
\* callers seed the hash before they create a table.
set_hashtable_seed(sd, new_seed, gen) ==
    IF sd = 0 /\ new_seed = 0 THEN gen ELSE sd

SetSeed(new_seed, gen) ==
    /\ Idle
    /\ ~table.allocated
    /\ hashtable_seed' = set_hashtable_seed(hashtable_seed, new_seed, gen)
    /\ last' = Call("seed", <<>>, new_seed, FALSE, FALSE, 0, <<>>, <<>>, FALSE, "none")
    /\ UNCHANGED <<table, status>>

\* table = hashtable_create(initial_size, max_loadfactor)
Create(initial_size, max_loadfactor, zeroOk, F) ==
    /\ Idle
    /\ ~table.allocated
    /\ \E c \in {hashtable_create(initial_size, max_loadfactor, 1, zeroOk, 0, F)} :
          /\ table' = c.table
          /\ last' = Call("create", <<>>, initial_size, FALSE, FALSE, c.table.id, <<>>, <<>>, FALSE, "none")
    /\ UNCHANGED <<hashtable_seed, status>>

\* hashtable_destroy(table, deallocator); the caller drops the handle.
Destroy(dealloc) ==
    /\ Idle
    /\ table' = NoTable
    /\ last' = Call("destroy", <<>>, NULL, FALSE, dealloc, IF table.allocated THEN 0 ELSE -1,
                    IF table.allocated THEN DestroyFreed(table, dealloc) ELSE <<>>, <<>>, FALSE, "none")
    /\ UNCHANGED <<hashtable_seed, status>>

\* hashtable_set(&table, key, keylen, value, replace, deallocator)
SetDone(key, value, replace, dealloc, r) ==
    /\ r.table.table_size <= MaxTableSize
    /\ \A i \in 1..r.table.table_size : r.table.buckets[i].size <= MaxBucketSize
    /\ \/ /\ r.ub
          /\ Undefined("set", key, value, replace, dealloc)
       \/ /\ table' = r.table
          /\ last' = Call("set", key, value, replace, dealloc, r.ret, r.freed, r.hit, r.created, r.grow)
          /\ UNCHANGED <<hashtable_seed, status>>

Set(key, value, replace, dealloc) ==
    /\ Idle
    /\ IF ~table.allocated
       THEN /\ last' = Call("set", key, value, replace, dealloc, -1, <<>>, <<>>, FALSE, "none")
            /\ UNCHANGED <<hashtable_seed, table, status>>
       ELSE IF table.table_size = 0
       THEN Undefined("set", key, value, replace, dealloc)
       ELSE \E r0 \in {hashtable_set(table, key, value, replace, dealloc, {})} :
               \/ SetDone(key, value, replace, dealloc, r0)
               \/ \E i \in 1..Min(r0.n, MaxAllocFail) :
                     \E r \in {hashtable_set(table, key, value, replace, dealloc, {i})} :
                        SetDone(key, value, replace, dealloc, r)

\* hashtable_get(table, key, keylen)
Get(key) ==
    /\ Idle
    /\ \E pair \in {_hashtable_find(table, key)} :
          IF pair.st = "ub" THEN Undefined("get", key, NULL, FALSE, FALSE)
          ELSE /\ last' = Call("get", key, NULL, FALSE, FALSE, GetOf(pair), <<>>, pair.key, FALSE, "none")
               /\ UNCHANGED <<hashtable_seed, table, status>>

\* hashtable_exists_pair(table, key, keylen)
Exists(key) ==
    /\ Idle
    /\ \E pair \in {_hashtable_find(table, key)} :
          IF pair.st = "ub" THEN Undefined("exists", key, NULL, FALSE, FALSE)
          ELSE /\ last' = Call("exists", key, NULL, FALSE, FALSE, ExistsOf(pair), <<>>, pair.key, FALSE, "none")
               /\ UNCHANGED <<hashtable_seed, table, status>>

\* _hashtable_remove(table, key, keylen, deallocator)
Remove(key, dealloc) ==
    /\ Idle
    /\ \E r \in {_hashtable_remove(table, key, dealloc)} :
          IF r.ret = UB THEN Undefined("remove", key, NULL, FALSE, dealloc)
          ELSE /\ table' = r.table
               /\ status' = IF r.ret = HANG THEN "hung" ELSE "ok"
               /\ last' = Call("remove", key, NULL, FALSE, dealloc, r.ret, r.freed, r.hit, FALSE, "none")
               /\ UNCHANGED hashtable_seed

\* The caller takes the result of the call that returned.
Return ==
    /\ status = "ok"
    /\ last.op # "none"
    /\ last' = NoCall
    /\ UNCHANGED <<hashtable_seed, table, status>>

Next ==
    \/ \E new_seed \in {0, 1}, gen \in PidSeeds : SetSeed(new_seed, gen)
    \/ \E initial_size \in 0..MaxInitSize, max_loadfactor \in 0..MaxLoad, zeroOk \in BOOLEAN, F \in {{}, {1}, {2}} :
          Create(initial_size, max_loadfactor, zeroOk, F)
    \/ \E dealloc \in BOOLEAN : Destroy(dealloc)
    \/ \E key \in Keys, value \in Vals, replace \in BOOLEAN, dealloc \in BOOLEAN :
          Set(key, value, replace, dealloc)
    \/ \E key \in Keys : Get(key)
    \/ \E key \in Keys : Exists(key)
    \/ \E key \in Keys, dealloc \in BOOLEAN : Remove(key, dealloc)
    \/ Return

Spec == Init /\ [][Next]_vars

TypeOK ==
    /\ hashtable_seed \in PidSeeds \cup {0}
    /\ status \in {"ok", "hung", "undefined"}
    /\ table.table_size \in 0..MaxTableSize

\* ------------------------------------------------------------ what is stored
\* The key is stored: some chain of the table links an item with these bytes.
Stored(t, key) == \E i \in 1..Len(ItemsOf(t)) : ItemsOf(t)[i].key = key

\* The value stored for a key that is stored.
ValueOf(t, key) == ItemsOf(t)[CHOOSE i \in 1..Len(ItemsOf(t)) : ItemsOf(t)[i].key = key].value

\* The number of live entries.
LiveCount(t) == Len(ItemsOf(t))

\* One key is a proper prefix of the other.
ProperPrefix(k1, k2) == Len(k1) < Len(k2) /\ SubSeq(k2, 1, Len(k1)) = k1
PrefixPair(k1, k2) == ProperPrefix(k1, k2) \/ ProperPrefix(k2, k1)

\* The last call was a hashtable_set that stored its value: it created an
\* item or overwrote the value of the item it found.
SetStored == last.op = "set" /\ status = "ok" /\ (last.created \/ (last.replace /\ last.hit # <<>>))

\* ----------------------------------------------------------------- claims
\* The claims speak of calls that return: a state or step in which the
\* behaviour of the program is undefined satisfies none of their cases.

\* C1: whenever hashtable_set stored a value for a key (new item or overwrite,
\* with or without growth), hashtable_get of that key on the caller's table
\* returns that value and hashtable_exists_pair returns 1.
C1_GetAfterSet ==
    SetStored => /\ hashtable_get(table, last.key) = last.value
                 /\ hashtable_exists_pair(table, last.key) = 1

\* C2: in every state of a table with slots, hashtable_get of a key that is
\* not stored returns NULL and hashtable_exists_pair returns 0.
C2_AbsentKeyNotFound ==
    \A k \in Keys :
        (status = "ok" /\ table.allocated /\ table.table_size > 0 /\ ~Stored(table, k))
            => /\ hashtable_get(table, k) = NULL
               /\ hashtable_exists_pair(table, k) = 0

\* C3: no get, exists, set or remove of a key treats the item of another key
\* as its own when one of the two keys is a proper prefix of the other: the
\* item a call found, reported as duplicate, overwrote or removed (last.hit)
\* never belongs to such a key.  (Stated for the searches that compare keys:
\* a get or exists answered by the fast path of _hashtable_find is left out.)
C3_PrefixKeysDistinct ==
    /\ (last.op \in {"set", "remove"} /\ last.hit # <<>>) => ~PrefixPair(last.key, last.hit)
    /\ (last.op \in {"get", "exists"} /\ last.hit # <<>> /\ ~FindFastPath(table.buckets[Slot(table, last.key) + 1]))
           => ~PrefixPair(last.key, last.hit)

\* C4: _hashtable_remove of a stored key returns 0, after it get returns NULL
\* and exists returns 0 for the key, and num_items is one less.
C4_RemoveStored ==
    [][(last'.op = "remove" /\ Stored(table, last'.key))
          => /\ status' = "ok"
             /\ last'.ret = 0
             /\ hashtable_get(table', last'.key) = NULL
             /\ hashtable_exists_pair(table', last'.key) = 0
             /\ table'.num_items = table.num_items - 1]_vars

\* C5: every _hashtable_remove returns, and it returns -1 and leaves the table
\* as it was when the key is not stored.
C5_RemoveTerminates ==
    [][last'.op = "remove"
          => /\ status' # "hung"
             /\ ~Stored(table, last'.key) => (last'.ret = -1 /\ table' = table)]_vars

\* C6: a hashtable_set that grows the table keeps every key with its value
\* (the new one included), hands no value to a deallocator, and leaves
\* num_items at what it was just before the growth.
C6_GrowthPreserves ==
    [][(last'.op = "set" /\ last'.grow = "grown")
          => /\ \A k \in Keys : Stored(table, k) => hashtable_get(table', k) = ValueOf(table, k)
             /\ hashtable_get(table', last'.key) = last'.value
             /\ last'.freed = <<>>
             /\ table'.num_items = table.num_items + 1]_vars

\* C7: hashtable_set with replace = 0 of a key that is stored fails and
\* changes nothing: same table object, count, capacity and chains, get still
\* returns the old value, and no value is handed to the deallocator.
C7_NoReplaceKeepsValue ==
    [][(last'.op = "set" /\ ~last'.replace /\ Stored(table, last'.key))
          => /\ status' = "ok"
             /\ last'.ret = -1
             /\ table' = table
             /\ last'.freed = <<>>
             /\ hashtable_get(table', last'.key) = ValueOf(table, last'.key)]_vars

\* C7 witness: a set without replace found its key stored with another value
\* than the one offered, a deallocator supplied, and has returned.
C7_Witness ==
    /\ last.op = "set" /\ ~last.replace /\ last.dealloc /\ last.hit = last.key
    /\ Stored(table, last.key) /\ ValueOf(table, last.key) # last.value

\* C8: hashtable_set returns the success result exactly when it stored the
\* value, and a failed growth after a successful insert is told apart from a
\* failed insert.
C8_SetResult ==
    (last.op = "set" /\ status = "ok" /\ table.allocated)
        => /\ (SetStored /\ last.grow # "nomem") => last.ret = 0
           /\ last.ret = 0 => SetStored
           /\ last.grow = "nomem" => last.ret \notin {0, -1}

\* C9: when the set reaches the load factor and the new table cannot be
\* allocated, the caller's table object and capacity stay, every key stored
\* before keeps its value, the new key is stored with its value and counted.
C9_GrowthAllocFailure ==
    [][(last'.op = "set" /\ last'.grow = "nomem")
          => /\ table'.id = table.id
             /\ table'.table_size = table.table_size
             /\ \A k \in Keys : Stored(table, k) => hashtable_get(table', k) = ValueOf(table, k)
             /\ Stored(table', last'.key)
             /\ hashtable_get(table', last'.key) = last'.value
             /\ table'.num_items = table.num_items + 1]_vars

\* C9 witness: a set that could not allocate the new table has returned, on a
\* table that held another key before.
C9_Witness ==
    /\ last.op = "set" /\ last.grow = "nomem" /\ status = "ok"
    /\ \E k \in Keys : k # last.key /\ Stored(table, k)

\* C10: a set that creates an item doubles table_size exactly when the live
\* entries divided by table_size reach max_load_factor (the new table's
\* allocation not failing); every other call leaves table_size as it is.
C10_GrowthTrigger ==
    [][(last'.op \in {"set", "get", "exists", "remove"} /\ table.allocated /\ status' = "ok" /\ last'.grow # "nomem")
          => IF last'.op = "set" /\ last'.created
                 /\ (LiveCount(table) + 1) \div table.table_size >= table.max_load_factor
             THEN table'.table_size = table.table_size * HASHTABLE_GROWTH_FACTOR
             ELSE table'.table_size = table.table_size]_vars

\* C11: after every hashtable_set that created an item and returned (the
\* growth, if any, having succeeded), the live entries divided by table_size
\* are below max_load_factor.  (Stated for a positive max_load_factor: with
\* max_load_factor 0 no table satisfies the inequality.)
C11_LoadFactorBound ==
    (last.op = "set" /\ status = "ok" /\ last.created /\ last.grow # "nomem"
        /\ table.allocated /\ table.table_size > 0 /\ table.max_load_factor > 0)
        => LiveCount(table) \div table.table_size < table.max_load_factor

\* C12: hashtable_destroy with a deallocator hands the value of every item
\* stored in the table to the deallocator, each exactly once, in the order
\* of the walk; without a deallocator it hands over none.
C12_DestroyVisitsAll ==
    [][(last'.op = "destroy" /\ table.allocated)
          => last'.freed = IF last'.dealloc THEN ValuesOf(ItemsOf(table), 1) ELSE <<>>]_vars

\* C13: every table that exists has table_size > 0 (hashtable_create of size
\* 0 returns no table), no call divides by a zero table_size, and table_size
\* of a table changes only by a growth inside hashtable_set.
C13_CapacityPositive ==
    [][/\ table'.allocated => table'.table_size > 0
       /\ (last'.op = "create" /\ last'.value = 0) => ~table'.allocated
       /\ (table.allocated /\ table.table_size = 0) => status' # "undefined"
       /\ (table.allocated /\ table'.allocated /\ table'.table_size # table.table_size)
             => (last'.op = "set" /\ last'.grow = "grown")]_vars

\* C14: set_hashtable_seed with a non-zero candidate while the seed is zero
\* makes the seed the candidate; a non-zero seed is never changed.
C14_SeedAdopted ==
    [][last'.op = "seed"
          => /\ (hashtable_seed = 0 /\ last'.value # 0) => hashtable_seed' = last'.value
             /\ hashtable_seed # 0 => hashtable_seed' = hashtable_seed]_vars

\* C15: whatever allocation fails while hashtable_set grows the table, every
\* key stored before the growth (the one the set just inserted included) is
\* stored with its value in the table the caller holds afterwards.
C15_GrowthLosesNothing ==
    [][(last'.op = "set" /\ status' = "ok" /\ last'.grow # "none")
          => /\ \A k \in Keys : Stored(table, k) => (Stored(table', k) /\ ValueOf(table', k) = ValueOf(table, k))
             /\ Stored(table', last'.key) /\ ValueOf(table', last'.key) = last'.value]_vars

\* C16: in every state, the size of each allocated bucket is the length of
\* its chain and at least 1: no allocated bucket has an empty chain.
C16_BucketSize ==
    (status = "ok" /\ table.allocated)
        => \A i \in 1..table.table_size :
              table.buckets[i].allocated
                  => /\ table.buckets[i].size = Len(table.buckets[i].chain)
                     /\ table.buckets[i].size >= 1

\* C17: hashtable_set with replace = 1 of a key that is not stored finds no
\* item, hands no value to the deallocator, changes the value of no stored
\* key, and, when it creates the item, stores the key with the value and
\* counts it: one more live entry, and without growth one more in num_items.
C17_ReplaceOfAbsentKey ==
    [][(last'.op = "set" /\ last'.replace /\ status' = "ok"
           /\ table.allocated /\ table.table_size > 0 /\ ~Stored(table, last'.key))
          => /\ last'.hit = <<>>
             /\ last'.freed = <<>>
             /\ \A k \in Keys : (Stored(table, k) /\ Stored(table', k)) => ValueOf(table', k) = ValueOf(table, k)
             /\ (last'.created /\ last'.grow # "grown")
                   => /\ Stored(table', last'.key) /\ ValueOf(table', last'.key) = last'.value
                      /\ LiveCount(table') = LiveCount(table) + 1
                      /\ table'.num_items = table.num_items + 1]_vars

\* C18: hashtable_set with replace = 1 of a stored key hands exactly the old
\* value of that key to the deallocator (when one is supplied), makes the key
\* map to the new value, and leaves the table object, table_size, num_items,
\* every bucket's fields, the keys of every chain in their order and the
\* value of every other key as they were; it does not grow the table.
C18_OverwriteFrame ==
    [][(last'.op = "set" /\ last'.replace /\ table.allocated /\ Stored(table, last'.key))
          => /\ status' = "ok"
             /\ last'.freed = IF last'.dealloc THEN <<ValueOf(table, last'.key)>> ELSE <<>>
             /\ ~last'.created /\ last'.grow = "none"
             /\ table'.allocated /\ table'.id = table.id
             /\ table'.table_size = table.table_size
             /\ table'.num_items = table.num_items
             /\ table'.max_load_factor = table.max_load_factor
             /\ \A i \in 1..table.table_size :
                   /\ table'.buckets[i].allocated = table.buckets[i].allocated
                   /\ table'.buckets[i].tail = table.buckets[i].tail
                   /\ table'.buckets[i].size = table.buckets[i].size
                   /\ table'.buckets[i].had_collision = table.buckets[i].had_collision
                   /\ Len(table'.buckets[i].chain) = Len(table.buckets[i].chain)
                   /\ \A j \in 1..Len(table.buckets[i].chain) :
                         /\ table'.buckets[i].chain[j].key = table.buckets[i].chain[j].key
                         /\ table'.buckets[i].chain[j].value =
                               IF table.buckets[i].chain[j].key = last'.key THEN last'.value
                               ELSE table.buckets[i].chain[j].value]_vars

\* C18 witness: a set with replace and a deallocator has overwritten the
\* value of its own key with a different one, the old value went to the
\* deallocator, and the table holds another key as well.
C18_Witness ==
    /\ last.op = "set" /\ last.replace /\ last.dealloc /\ last.hit = last.key /\ status = "ok"
    /\ Len(last.freed) = 1 /\ last.freed[1] # last.value
    /\ Stored(table, last.key) /\ ValueOf(table, last.key) = last.value
    /\ \E k \in Keys : k # last.key /\ Stored(table, k)

\* C19: had_collision of a bucket is true exactly when its chain has at some
\* time held more than one item.  Step by step: on the same table object the
\* flag after a call is the flag before it or that the chain now holds more
\* than one item; in a table made by a growth (chains only filled) it is that
\* the chain holds more than one item.
C19_HadCollision ==
    [][(status' = "ok" /\ table.allocated /\ table'.allocated)
          => IF table'.id = table.id
             THEN \A i \in 1..table.table_size :
                     table'.buckets[i].had_collision
                         = (table.buckets[i].had_collision \/ Len(table'.buckets[i].chain) > 1)
             ELSE \A i \in 1..table'.table_size :
                     table'.buckets[i].had_collision = (Len(table'.buckets[i].chain) > 1)]_vars

\* C20: across set and remove calls on a table with slots no call reads or
\* writes through a NULL head or a released item: no call's behaviour is
\* undefined, the tail of every bucket is NULL or an item linked in its
\* chain, and no lookup in a bucket with an empty chain dereferences its head.
C20_MemorySafety ==
    (table.allocated /\ table.table_size > 0)
        => /\ status # "undefined"
           /\ \A i \in 1..table.table_size :
                 table.buckets[i].allocated
                     => /\ table.buckets[i].tail.st # "freed"
                        /\ table.buckets[i].tail.st = "item"
                              => PosOf(table.buckets[i].chain, table.buckets[i].tail) # 0
                        /\ \A k \in Keys : FindInBucket(table.buckets[i], k).st # "ub"
====
